---- MODULE Spec2Model ----
(***************************************************************************)
(* Model of sowatly-bot (src/main.py): a Telegram bot that keeps paid      *)
(* access to a chat and a channel.  The store is a Google-Sheets worksheet *)
(* (one row per registration), the gateway is the Telegram Bot API.        *)
(*                                                                         *)
(* Cell texts are sequences of one-character strings, so that str(),       *)
(* strip(), lower(), int() and strptime() are computed, not assumed.       *)
(***************************************************************************)
EXTENDS Integers, Sequences, FiniteSets, TLC

VARIABLES
    worksheet,   \* the sheet: row 1 is the header, rows 2.. are the records
    today,       \* date.today(), a triple <<year, month, day>>
    fsm,         \* aiogram FSM storage: <<chat, user>> -> state
    h,           \* the message handler task in flight (or the last one run)
    sw,          \* the subscription_watcher task
    gateway      \* Telegram: group -> user -> "member", "left" or "banned"

vars == <<worksheet, today, fsm, h, sw, gateway>>

----------------------------------------------------------------------------
(* Bounds *)

NumIds == 2          \* Telegram users 1..NumIds
MaxRows == 2         \* data rows in the sheet (the header not counted)
MaxTicks == 1        \* midnights that pass during a run

Ids == 1..NumIds

----------------------------------------------------------------------------
(* Text: Python str as a sequence of characters *)

None == <<>>         \* Python None (also what a falsy empty str/list looks like)

DigitChars == <<"0", "1", "2", "3", "4", "5", "6", "7", "8", "9">>

IsDigit(c) == \E i \in 1..10 : DigitChars[i] = c

DigitVal(c) == (CHOOSE i \in 1..10 : DigitChars[i] = c) - 1

AllDigits(s) == Len(s) > 0 /\ \A i \in 1..Len(s) : IsDigit(s[i])

RECURSIVE ToIntUpTo(_, _)
\* the number the first n digits of s write
ToIntUpTo(s, n) ==
    IF n = 0 THEN 0 ELSE 10 * ToIntUpTo(s, n - 1) + DigitVal(s[n])

\* int(s) for a string of decimal digits
ToInt(s) == ToIntUpTo(s, Len(s))

RECURSIVE Str(_)
\* str(n) for n >= 0
Str(n) ==
    IF n < 10 THEN <<DigitChars[n + 1]>>
    ELSE Str(n \div 10) \o <<DigitChars[(n % 10) + 1]>>

IsSpace(c) == c \in {" "}

RECURSIVE LStrip(_)
LStrip(s) ==
    IF Len(s) > 0 /\ IsSpace(s[1]) THEN LStrip(Tail(s)) ELSE s

RECURSIVE RStrip(_)
RStrip(s) ==
    IF Len(s) > 0 /\ IsSpace(s[Len(s)]) THEN RStrip(SubSeq(s, 1, Len(s) - 1)) ELSE s

\* str.strip()
Strip(s) == RStrip(LStrip(s))

LowerChar(c) ==
    CASE c = "Y" -> "y"
      [] c = "E" -> "e"
      [] c = "S" -> "s"
      [] c = "N" -> "n"
      [] c = "O" -> "o"
      [] OTHER -> c

\* str.lower()
Lower(s) == [i \in 1..Len(s) |-> LowerChar(s[i])]

T_empty == <<>>
T_yes == <<"y", "e", "s">>
T_Yes == <<"Y", "e", "s">>
T_no == <<"n", "o">>
T_name == <<"A", "n", "a">>
T_check == <<"/", "c", "h", "e", "c", "k">>

----------------------------------------------------------------------------
(* Dates *)

IsLeap(y) == (y % 4 = 0 /\ y % 100 # 0) \/ y % 400 = 0

DaysInMonth(y, m) ==
    IF m = 2 THEN (IF IsLeap(y) THEN 29 ELSE 28)
    ELSE IF m \in {4, 6, 9, 11} THEN 30 ELSE 31

\* datetime.date(y, m, d) raises ValueError outside these ranges
ValidDate(y, m, d) ==
    /\ y >= 1 /\ y <= 9999
    /\ m >= 1 /\ m <= 12
    /\ d >= 1 /\ d <= DaysInMonth(y, m)

\* a < b on datetime.date
DateLess(a, b) ==
    \/ a[1] < b[1]
    \/ a[1] = b[1] /\ a[2] < b[2]
    \/ a[1] = b[1] /\ a[2] = b[2] /\ a[3] < b[3]

DateGeq(a, b) == ~DateLess(a, b)

NextDay(d) ==
    IF d[3] < DaysInMonth(d[1], d[2]) THEN <<d[1], d[2], d[3] + 1>>
    ELSE IF d[2] < 12 THEN <<d[1], d[2] + 1, 1>>
    ELSE <<d[1] + 1, 1, 1>>

RECURSIVE DayAfter(_, _)
DayAfter(d, n) == IF n = 0 THEN d ELSE DayAfter(NextDay(d), n - 1)

\* the %m directive: 1[0-2] | 0[1-9] | [1-9]; the number of characters it takes
MonthWidth(s) ==
    IF Len(s) >= 2 /\ s[1] = "1" /\ s[2] \in {"0", "1", "2"} THEN 2
    ELSE IF Len(s) >= 2 /\ s[1] = "0" /\ IsDigit(s[2]) /\ s[2] # "0" THEN 2
    ELSE IF Len(s) >= 1 /\ IsDigit(s[1]) /\ s[1] # "0" THEN 1
    ELSE 0

\* the %d directive: 3[01] | [12]\d | 0[1-9] | [1-9] | " "[1-9]
DayWidth(s) ==
    IF Len(s) >= 2 /\ s[1] = "3" /\ s[2] \in {"0", "1"} THEN 2
    ELSE IF Len(s) >= 2 /\ s[1] \in {"1", "2"} /\ IsDigit(s[2]) THEN 2
    ELSE IF Len(s) >= 2 /\ s[1] = "0" /\ IsDigit(s[2]) /\ s[2] # "0" THEN 2
    ELSE IF Len(s) >= 1 /\ IsDigit(s[1]) /\ s[1] # "0" THEN 1
    ELSE IF Len(s) >= 2 /\ s[1] = " " /\ IsDigit(s[2]) /\ s[2] # "0" THEN 2
    ELSE 0

\* datetime.date(y, m, d), None for its ValueError
DateOrNone(y, m, d) == IF ValidDate(y, m, d) THEN <<y, m, d>> ELSE None

\* the %d directive and the end of the text, after "%Y-%m-"
StrptimeDay(y, m, afterMonth) ==
    IF DayWidth(afterMonth) = 0 \/ DayWidth(afterMonth) # Len(afterMonth)
    THEN None                                      \* no match, or unconverted data remains
    ELSE CHOOSE date \in {DateOrNone(y, m, d) : d \in {ToInt(LStrip(afterMonth))}} : TRUE

\* the %m directive and what follows it, after "%Y-"
StrptimeMonth(y, afterYear) ==
    IF \/ MonthWidth(afterYear) = 0
       \/ Len(afterYear) < MonthWidth(afterYear) + 1
       \/ afterYear[MonthWidth(afterYear) + 1] # "-"
    THEN None
    ELSE CHOOSE date \in
            {StrptimeDay(y, m, rest) :
                m \in {ToInt(SubSeq(afterYear, 1, MonthWidth(afterYear)))},
                rest \in {SubSeq(afterYear, MonthWidth(afterYear) + 2, Len(afterYear))}} : TRUE

\* datetime.strptime(s, "%Y-%m-%d").date(); None stands for the ValueError
\* (each part of the text is bound once, as a value, before it is used)
Strptime(s) ==
    IF ~(Len(s) >= 6 /\ AllDigits(SubSeq(s, 1, 4)) /\ s[5] = "-") THEN None
    ELSE CHOOSE date \in
            {StrptimeMonth(y, rest) :
                y \in {ToInt(SubSeq(s, 1, 4))},
                rest \in {SubSeq(s, 6, Len(s))}} : TRUE

\* (the stripped text is bound once, as a value, before it is parsed)
parse_date_or_none(s) ==
    IF s = T_empty THEN None
    ELSE CHOOSE d \in {Strptime(stripped) : stripped \in {Strip(s)}} : TRUE

\* date.isoformat()
TwoDigits(n) == <<DigitChars[(n \div 10) + 1], DigitChars[(n % 10) + 1]>>

isoformat(d) ==
    <<DigitChars[(d[1] \div 1000) + 1], DigitChars[((d[1] \div 100) % 10) + 1]>>
        \o TwoDigits(d[1] % 100) \o <<"-">> \o TwoDigits(d[2]) \o <<"-">> \o TwoDigits(d[3])

----------------------------------------------------------------------------
(* The store: the worksheet and the five functions that touch it *)

H_telegram_id == <<"t", "e", "l", "e", "g", "r", "a", "m", "_", "i", "d">>
H_username == <<"u", "s", "e", "r", "n", "a", "m", "e">>
H_full_name == <<"f", "u", "l", "l", "_", "n", "a", "m", "e">>
H_paid == <<"p", "a", "i", "d">>
H_expiry_date == <<"e", "x", "p", "i", "r", "y", "_", "d", "a", "t", "e">>

HeaderRow == <<H_telegram_id, H_username, H_full_name, H_paid, H_expiry_date>>

NoRow == 0           \* find_row_by_telegram_id returning None

\* worksheet.col_values(1), 1-based like the sheet
ColValues1(ws) == [i \in 1..Len(ws) |-> ws[i][1]]

find_row_by_telegram_id(ws, tg_id) ==
    LET col == ColValues1(ws)
        hits == {idx \in 1..Len(col) : Strip(col[idx]) = Str(tg_id)}
    IN  IF hits = {} THEN NoRow
        ELSE CHOOSE idx \in hits : \A other \in hits : idx <= other

\* add_user_record writing over the last row of the sheet instead of under it
add_user_record_over_last(ws, tg_id, username, full_name) ==
    IF Len(ws) > 1
    THEN [ws EXCEPT ![Len(ws)] = <<Str(tg_id), username, full_name, T_no, T_empty>>]
    ELSE Append(ws, <<Str(tg_id), username, full_name, T_no, T_empty>>)

\* add_user_record writing the row as paid
add_user_record_paid(ws, tg_id, username, full_name) ==
    Append(ws, <<Str(tg_id), username, full_name, T_yes, T_empty>>)

\* update_user_fields (lines 71-78) has no caller in the program: no action
\* of this module rewrites a row
add_user_record(ws, tg_id, username, full_name) ==
    Append(ws, <<Str(tg_id), username, full_name, T_no, T_empty>>)

RECURSIVE TrimTrailing(_)
\* worksheet.row_values(row) leaves out the empty cells at the end of the row
TrimTrailing(cells) ==
    IF Len(cells) > 0 /\ cells[Len(cells)] = T_empty
    THEN TrimTrailing(SubSeq(cells, 1, Len(cells) - 1))
    ELSE cells

read_user(ws, row) ==
    LET vals == TrimTrailing(ws[row]) \o <<T_empty, T_empty, T_empty, T_empty, T_empty>>
    IN  [telegram_id |-> vals[1],
         username |-> vals[2],
         full_name |-> vals[3],
         paid |-> Lower(vals[4]),
         expiry_date |-> vals[5]]

\* str() of a cell as get_all_records returns it: a cell of digits comes back
\* as an int, any other cell as the text itself
NumericisedStr(cell) == IF AllDigits(cell) THEN Str(ToInt(cell)) ELSE cell

\* worksheet.get_all_records(): one dict per row under the header row
get_all_records(ws) ==
    [i \in 1..(Len(ws) - 1) |->
        [telegram_id |-> NumericisedStr(ws[i + 1][1]),
         paid |-> ws[i + 1][4],
         expiry_date |-> ws[i + 1][5]]]

----------------------------------------------------------------------------
(* State of the two kinds of task *)

StartDay == <<2024, 1, 31>>                  \* date.today() when the bot starts
LastDay == DayAfter(StartDay, MaxTicks)

Chats == {"private"}                         \* chats a user writes to the bot from

PaidCells == {T_no, T_Yes}
ExpiryCells == {T_empty,
                isoformat(StartDay),
                isoformat(NextDay(StartDay)),
                <<"2", "0", "2", "4", "-", "0", "2", "-", "3", "0">>}

RowSet ==
    {<<Str(id), T_empty, T_name, p, e>> : id \in Ids, p \in PaidCells, e \in ExpiryCells}

\* the sheets the bot can find when it starts: a header and up to MaxRows records
InitSheets ==
    {<<HeaderRow>> \o rows : rows \in UNION {[1..n -> RowSet] : n \in 0..MaxRows}}

NoUser ==
    [telegram_id |-> T_empty, username |-> T_empty, full_name |-> T_empty,
     paid |-> T_empty, expiry_date |-> T_empty]

RevokeCalls == {"ban_chat", "unban_chat", "ban_channel", "unban_channel"}
InviteCalls == {"link_chat", "link_channel", "send_chat", "send_channel"}

\* a handler task; calls, ok and day record what the run did (history)
HandlerIdle ==
    [pc |-> "idle", cmd |-> "none", tg_id |-> 0, chat |-> "none", row |-> NoRow,
     user |-> NoUser, expiry |-> None, day |-> None, calls |-> {}, ok |-> {},
     answer |-> "none"]

\* the watcher task; day, nseq, log and oklog are history of the current cycle:
\* the date it began on, the revoke sequences it began, the calls it made and
\* the calls that returned, as <<index in all_values, call>>
WatcherStart ==
    [pc |-> "start", all_values |-> <<>>, idx |-> 0, day |-> None, nseq |-> 0,
     log |-> {}, oklog |-> {}]

Groups == {"chat", "channel"}               \* CHAT_ID and CHANNEL_ID

\* every user is in the chat and in the channel
InGroups == [g \in Groups |-> [id \in Ids |-> "member"]]

Init ==
    /\ worksheet \in InitSheets
    /\ today = StartDay
    /\ fsm = [k \in Chats \X Ids |-> "none"]
    /\ h = HandlerIdle
    /\ sw = WatcherStart
    /\ gateway = InGroups

----------------------------------------------------------------------------
(* Message handlers *)

HandlerFree == h.pc \in {"idle", "done"}

Finished(cmd, tg_id, chat, row, user, expiry, answer) ==
    [pc |-> "done", cmd |-> cmd, tg_id |-> tg_id, chat |-> chat, row |-> row,
     user |-> user, expiry |-> expiry, day |-> today, calls |-> {}, ok |-> {},
     answer |-> answer]

Calling(cmd, tg_id, chat, row, user, expiry, call) ==
    [pc |-> call, cmd |-> cmd, tg_id |-> tg_id, chat |-> chat, row |-> row,
     user |-> user, expiry |-> expiry, day |-> today, calls |-> {call}, ok |-> {},
     answer |-> "none"]

\* cmd_start with the test of the expiry date left out
cmd_start_any_paid(tg_id, chat) ==
    LET row == find_row_by_telegram_id(worksheet, tg_id)
        user == read_user(worksheet, row)
        expiry == parse_date_or_none(user.expiry_date)
    IN  IF row # NoRow
        THEN /\ h' = IF user.paid = T_yes
                     THEN Calling("start", tg_id, chat, row, user, expiry, "link_chat")
                     ELSE Finished("start", tg_id, chat, row, user, None, "awaiting")
             /\ fsm' = fsm
        ELSE /\ h' = Finished("start", tg_id, chat, row, NoUser, None, "ask_name")
             /\ fsm' = [fsm EXCEPT ![<<chat, tg_id>>] = "waiting"]

\* /start, up to its first suspension
cmd_start(tg_id, chat) ==
    LET row == find_row_by_telegram_id(worksheet, tg_id)
        user == read_user(worksheet, row)
        expiry == parse_date_or_none(user.expiry_date)
    IN  IF row # NoRow
        THEN /\ h' = IF user.paid = T_yes
                     THEN IF expiry # None /\ DateGeq(expiry, today)
                          THEN Calling("start", tg_id, chat, row, user, expiry, "link_chat")
                          ELSE Finished("start", tg_id, chat, row, user, expiry, "expired")
                     ELSE Finished("start", tg_id, chat, row, user, None, "awaiting")
             /\ fsm' = fsm
        ELSE /\ h' = Finished("start", tg_id, chat, row, NoUser, None, "ask_name")
             /\ fsm' = [fsm EXCEPT ![<<chat, tg_id>>] = "waiting"]

CmdStart(tg_id, chat) ==
    /\ HandlerFree
    /\ cmd_start(tg_id, chat)
    /\ UNCHANGED <<worksheet, today, sw, gateway>>

\* any message of a user whose state is waiting_for_full_name
process_full_name(tg_id, chat, text) ==
    /\ worksheet' = add_user_record(worksheet, tg_id, T_empty, Strip(text))
    /\ fsm' = [fsm EXCEPT ![<<chat, tg_id>>] = "none"]
    /\ h' = Finished("name", tg_id, chat, NoRow, NoUser, None, "thanks")

ProcessFullName(tg_id, chat, text) ==
    /\ HandlerFree
    /\ fsm[<<chat, tg_id>>] = "waiting"
    /\ Len(worksheet) - 1 < MaxRows
    /\ process_full_name(tg_id, chat, text)
    /\ UNCHANGED <<today, sw, gateway>>

\* cmd_check with the test of the paid column left out
cmd_check_no_paid_test(tg_id, chat) ==
    LET row == find_row_by_telegram_id(worksheet, tg_id)
        user == read_user(worksheet, row)
        expiry == parse_date_or_none(user.expiry_date)
    IN  h' = IF row = NoRow
             THEN Finished("check", tg_id, chat, row, NoUser, None, "not_registered")
             ELSE IF expiry = None
             THEN Finished("check", tg_id, chat, row, user, expiry, "no_date")
             ELSE IF DateLess(expiry, today)
             THEN Calling("check", tg_id, chat, row, user, expiry, "ban_chat")
             ELSE Calling("check", tg_id, chat, row, user, expiry, "link_chat")

\* /check, up to its first suspension
cmd_check(tg_id, chat) ==
    LET row == find_row_by_telegram_id(worksheet, tg_id)
        user == read_user(worksheet, row)
        expiry == parse_date_or_none(user.expiry_date)
    IN  h' = IF row = NoRow
             THEN Finished("check", tg_id, chat, row, NoUser, None, "not_registered")
             ELSE IF user.paid # T_yes
             THEN Finished("check", tg_id, chat, row, user, None, "awaiting")
             ELSE IF expiry = None
             THEN Finished("check", tg_id, chat, row, user, expiry, "no_date")
             ELSE IF DateLess(expiry, today)
             THEN Calling("check", tg_id, chat, row, user, expiry, "ban_chat")
             ELSE Calling("check", tg_id, chat, row, user, expiry, "link_chat")

CmdCheck(tg_id, chat) ==
    /\ HandlerFree
    /\ fsm[<<chat, tg_id>>] # "waiting"
    /\ cmd_check(tg_id, chat)
    /\ UNCHANGED <<worksheet, today, fsm, sw, gateway>>

\* the try block of /check: where it goes when the call in flight returns
check_revoke_next(call, ok) ==
    IF ~ok THEN "except"
    ELSE CASE call = "ban_chat" -> "unban_chat"
           [] call = "unban_chat" -> "ban_channel"
           [] call = "ban_channel" -> "unban_channel"
           [] call = "unban_channel" -> "end"

\* the try block of send_invite_links
send_invite_links_next(call, ok) ==
    IF ~ok THEN "except"
    ELSE CASE call = "link_chat" -> "link_channel"
           [] call = "link_channel" -> "send_chat"
           [] call = "send_chat" -> "send_channel"
           [] call = "send_channel" -> "end"

\* the answer a handler sends after its gateway calls
final_answer(cmd, call) ==
    IF call \in RevokeCalls THEN "expired"
    ELSE IF cmd = "start" THEN "already_paid" ELSE "active"

\* the gateway call in flight returns (ok) or raises (~ok)
HandlerReturn(ok) ==
    /\ h.pc \in RevokeCalls \cup InviteCalls
    /\ LET nxt == IF h.pc \in RevokeCalls THEN check_revoke_next(h.pc, ok)
                  ELSE send_invite_links_next(h.pc, ok)
           done == IF ok THEN h.ok \cup {h.pc} ELSE h.ok
       IN  h' = IF nxt \in {"except", "end"}
                THEN [h EXCEPT !.pc = "done", !.ok = done,
                               !.answer = final_answer(h.cmd, h.pc)]
                ELSE [h EXCEPT !.pc = nxt, !.ok = done, !.calls = @ \cup {nxt}]
    /\ UNCHANGED <<worksheet, today, fsm, sw>>

----------------------------------------------------------------------------
(* subscription_watcher *)

\* watcher_expired with expiry <= today for expiry < today
watcher_expired_on_day(row, day) ==
    \E tg_id_str \in {Strip(row.telegram_id)},
       paid \in {Lower(row.paid)},
       expiry \in {parse_date_or_none(row.expiry_date)} :
        /\ tg_id_str # T_empty
        /\ AllDigits(tg_id_str)
        /\ paid = T_yes /\ expiry # None /\ ~DateLess(day, expiry)

\* watcher_expired with the test of the paid column left out
watcher_expired_any_status(row, day) ==
    \E tg_id_str \in {Strip(row.telegram_id)},
       expiry \in {parse_date_or_none(row.expiry_date)} :
        /\ tg_id_str # T_empty
        /\ AllDigits(tg_id_str)
        /\ expiry # None /\ DateLess(expiry, day)

\* the body of the for loop up to the ban: does it start the revoke sequence
\* for this row
watcher_expired(row, day) ==
    \E tg_id_str \in {Strip(row.telegram_id)},
       paid \in {Lower(row.paid)},
       expiry \in {parse_date_or_none(row.expiry_date)} :
        /\ tg_id_str # T_empty
        /\ AllDigits(tg_id_str)
        /\ paid = T_yes /\ expiry # None /\ DateLess(expiry, day)

\* the for loop from index from on: the first row it starts a revoke sequence
\* for, 0 when it reaches the end of all_values
watcher_scan(rows, from, day) ==
    IF \A i \in from..Len(rows) : ~watcher_expired(rows[i], day) THEN 0
    ELSE CHOOSE i \in from..Len(rows) :
            /\ watcher_expired(rows[i], day)
            /\ \A before \in from..(i - 1) : ~watcher_expired(rows[before], day)

watcher_revoke_next(call, ok) ==
    IF ~ok THEN "except"
    ELSE CASE call = "ban_chat" -> "unban_chat"
           [] call = "unban_chat" -> "ban_channel"
           [] call = "ban_channel" -> "unban_channel"
           [] call = "unban_channel" -> "end"

\* the loop goes on from row from: up to the next ban, or into the sleep
watcher_continue(w, from) ==
    CHOOSE next \in
        {IF i = 0
         THEN [w EXCEPT !.pc = "sleep", !.idx = Len(w.all_values) + 1]
         ELSE [w EXCEPT !.pc = "ban_chat", !.idx = i, !.nseq = @ + 1,
                        !.log = @ \cup {<<i, "ban_chat">>}]
           : i \in {watcher_scan(w.all_values, from, today)}} : TRUE

\* a cycle begins: get_all_records returns (loaded) or raises (~loaded)
WatcherWake(loaded) ==
    /\ sw.pc \in {"start", "sleep"}
    /\ \E rows \in {get_all_records(worksheet)} :
          sw' = IF loaded
                THEN watcher_continue([sw EXCEPT !.all_values = rows, !.day = today,
                                                 !.nseq = 0, !.log = {}, !.oklog = {}], 1)
                ELSE [sw EXCEPT !.pc = "dead"]
    /\ UNCHANGED <<worksheet, today, fsm, h, gateway>>

\* WatcherReturn with the try around the for loop: a call that raises ends the cycle
WatcherReturn_abort(ok) ==
    /\ sw.pc \in RevokeCalls
    /\ LET nxt == watcher_revoke_next(sw.pc, ok)
           w == IF ok THEN [sw EXCEPT !.oklog = @ \cup {<<sw.idx, sw.pc>>}] ELSE sw
       IN  sw' = IF nxt = "except"
                 THEN [w EXCEPT !.pc = "sleep", !.idx = Len(w.all_values) + 1]
                 ELSE IF nxt = "end"
                 THEN watcher_continue(w, sw.idx + 1)
                 ELSE [w EXCEPT !.pc = nxt, !.log = @ \cup {<<sw.idx, nxt>>}]
    /\ UNCHANGED <<worksheet, today, fsm, h>>

\* the gateway call of the watcher returns (ok) or raises (~ok)
WatcherReturn(ok) ==
    /\ sw.pc \in RevokeCalls
    /\ LET nxt == watcher_revoke_next(sw.pc, ok)
           w == IF ok THEN [sw EXCEPT !.oklog = @ \cup {<<sw.idx, sw.pc>>}] ELSE sw
       IN  sw' = IF nxt \in {"except", "end"}
                 THEN watcher_continue(w, sw.idx + 1)
                 ELSE [w EXCEPT !.pc = nxt, !.log = @ \cup {<<sw.idx, nxt>>}]
    /\ UNCHANGED <<worksheet, today, fsm, h>>

----------------------------------------------------------------------------
(* Time *)

Tick ==
    /\ today # LastDay
    /\ today' = NextDay(today)
    /\ UNCHANGED <<worksheet, fsm, h, sw, gateway>>

----------------------------------------------------------------------------

\* The program takes nothing from the membership of the groups: a call
\* returns or raises whatever it is.  The specifications below leave gateway
\* at its first value; those that follow it use HandlerServed and
\* WatcherServed in place of HandlerReturn and WatcherReturn.
Next ==
    \/ \E tg_id \in Ids, chat \in Chats : CmdStart(tg_id, chat)
    \/ \E tg_id \in Ids, chat \in Chats, text \in {T_name, T_check} :
          ProcessFullName(tg_id, chat, text)
    \/ \E tg_id \in Ids, chat \in Chats : CmdCheck(tg_id, chat)
    \/ \E ok \in BOOLEAN : HandlerReturn(ok) /\ UNCHANGED gateway
    \/ \E loaded \in BOOLEAN : WatcherWake(loaded)
    \/ \E ok \in BOOLEAN : WatcherReturn(ok) /\ UNCHANGED gateway
    \/ Tick

Spec == Init /\ [][Next]_vars

\* The watcher alone, its store reads succeeding, under the fairness asyncio
\* gives a task: a sleep ends, and a gateway call returns or raises.
NextLive ==
    \/ WatcherWake(TRUE)
    \/ \E ok \in BOOLEAN : WatcherReturn(ok) /\ UNCHANGED gateway
    \/ Tick

SpecLive ==
    /\ Init
    /\ [][NextLive]_vars
    /\ WF_vars(WatcherWake(TRUE))
    /\ WF_vars(\E ok \in BOOLEAN : WatcherReturn(ok) /\ UNCHANGED gateway)

----------------------------------------------------------------------------
(* Vocabulary of the properties: the subscription states of section 4.1,   *)
(* read off the sheet itself                                               *)

\* the sheet row (2..) of the record of an identifier: the first row that
\* carries it; 0 when there is none
RecordRow(id) ==
    LET rows == {r \in 2..Len(worksheet) : worksheet[r][1] = Str(id)}
    IN  IF rows = {} THEN 0 ELSE CHOOSE r \in rows : \A q \in rows : r <= q

IsPaid(rec) == Lower(rec[4]) = T_yes
ExpiryOf(rec) == parse_date_or_none(rec[5])
HasExpiry(rec) == ExpiryOf(rec) # None

IsActive(rec, day) == IsPaid(rec) /\ HasExpiry(rec) /\ DateGeq(ExpiryOf(rec), day)
IsExpired(rec, day) == IsPaid(rec) /\ HasExpiry(rec) /\ DateLess(ExpiryOf(rec), day)

LinkCalls == {"link_chat", "link_channel"}

\* a handler that looked the identifier up has run, or is running
Evaluated == h.cmd \in {"start", "check"} /\ RecordRow(h.tg_id) # 0
HRec == worksheet[RecordRow(h.tg_id)]

\* the records the watcher's current cycle has gone through, as indexes of all_values
Swept ==
    {i \in 1..Len(sw.all_values) : i < sw.idx \/ (i = sw.idx /\ sw.pc \in RevokeCalls)}
SwRec(i) == worksheet[i + 1]
SwStarted == {i \in 1..Len(sw.all_values) : <<i, "ban_chat">> \in sw.log}
SwCalled(i) == \E c \in RevokeCalls : <<i, c>> \in sw.log
SwFailed == {i \in 1..Len(sw.all_values) : \E c \in RevokeCalls : <<i, c>> \in sw.log \ sw.oklog}
CycleOver == sw.pc = "sleep"

----------------------------------------------------------------------------
(* C1: a handler calls create_chat_invite_link for an identifier only if   *)
(* the identifier's record, on the date the handler read it, was paid with *)
(* a valid expiry date not before that date.                               *)
C1_LinksOnlyForActive ==
    (h.calls \cap LinkCalls # {}) =>
        /\ RecordRow(h.tg_id) # 0
        /\ IsActive(HRec, h.day)

C1_Witness ==
    /\ h.cmd = "start"
    /\ LinkCalls \subseteq h.calls
    /\ IsActive(HRec, h.day)

(* C2: for a paid record with a valid expiry date d, /check asks for links *)
(* iff d >= today and starts the revoke sequence iff d < today (d = today  *)
(* gives links); the watcher starts the revoke sequence for a row it has   *)
(* gone through iff d < today (if midnight passed during the cycle: always *)
(* when d was before the date the cycle began, never when d >= today).     *)
C2_ActiveIffNotBeforeToday ==
    /\ (h.cmd = "check" /\ RecordRow(h.tg_id) # 0 /\ IsPaid(HRec) /\ HasExpiry(HRec)) =>
          /\ ("link_chat" \in h.calls) <=> DateGeq(ExpiryOf(HRec), h.day)
          /\ ("ban_chat" \in h.calls) <=> DateLess(ExpiryOf(HRec), h.day)
    /\ \A i \in Swept :
          (IsPaid(SwRec(i)) /\ HasExpiry(SwRec(i))) =>
             /\ DateLess(ExpiryOf(SwRec(i)), sw.day) => i \in SwStarted
             /\ i \in SwStarted => DateLess(ExpiryOf(SwRec(i)), today)

C2_Witness ==
    /\ h.cmd = "check" /\ RecordRow(h.tg_id) # 0
    /\ IsPaid(HRec) /\ ExpiryOf(HRec) = h.day
    /\ "link_chat" \in h.calls
    /\ CycleOver /\ sw.day = today
    /\ \E i, j \in Swept :
          /\ IsPaid(SwRec(i)) /\ ExpiryOf(SwRec(i)) = today /\ i \notin SwStarted
          /\ j \in SwStarted

(* C3: a paid record whose expiry date is empty or does not parse gets no  *)
(* links, no revoke and no "subscription expired" answer, from /start,     *)
(* from /check and from the watcher.                                       *)
C3_NoDateIsAwaitingPayment ==
    /\ (Evaluated /\ IsPaid(HRec) /\ ~HasExpiry(HRec)) =>
          /\ h.calls = {}
          /\ h.answer # "expired"
    /\ \A i \in Swept : (IsPaid(SwRec(i)) /\ ~HasExpiry(SwRec(i))) => ~SwCalled(i)

SwRevoked(id) ==
    \E i \in SwStarted : Strip(sw.all_values[i].telegram_id) = Str(id)

C5_CheckAndWatcherAgree ==
    (/\ h.cmd = "check" /\ h.pc = "done" /\ h.day = today
     /\ CycleOver /\ sw.day = today
     /\ sw.all_values = get_all_records(worksheet))
    => (("ban_chat" \in h.calls) <=> SwRevoked(h.tg_id))

(* C6: in a revoke sequence that has ended, whatever happened to the calls *)
(* for the chat, the ban on the channel was attempted (and its unban, when *)
(* that ban went through).                                                 *)
C6_GroupsIndependent ==
    /\ (h.pc = "done" /\ "ban_chat" \in h.calls) =>
          /\ "ban_channel" \in h.calls
          /\ "ban_channel" \in h.ok => "unban_channel" \in h.calls
    /\ CycleOver =>
          \A i \in SwStarted :
             /\ <<i, "ban_channel">> \in sw.log
             /\ <<i, "ban_channel">> \in sw.oklog => <<i, "unban_channel">> \in sw.log

(* C7: a cycle over N records of which K are Expired starts K revoke       *)
(* sequences, one for each Expired record and none for another, and the    *)
(* rows it loaded are in the store as it loaded them.  (If midnight passed *)
(* during the cycle: the records Expired when it began are all among the   *)
(* K, and the K are all Expired now.)                                      *)
C7_OneSequencePerExpired ==
    CycleOver =>
        LET n == Len(sw.all_values)
            expiredOn(day) == {i \in 1..n : IsExpired(SwRec(i), day)}
        IN  /\ expiredOn(sw.day) \subseteq SwStarted
            /\ SwStarted \subseteq expiredOn(today)
            /\ sw.nseq = Cardinality(SwStarted)
            /\ sw.day = today => sw.nseq = Cardinality(expiredOn(today))
            /\ SubSeq(get_all_records(worksheet), 1, n) = sw.all_values

C7_Witness ==
    /\ CycleOver /\ sw.day = today
    /\ Len(sw.all_values) = 2
    /\ sw.nseq = 1
    /\ \E i \in 1..2 : ~IsExpired(SwRec(i), today) /\ ~SwCalled(i)

(* C8: a ban or unban that raises while the watcher handles one record     *)
(* does not end the cycle: every later record that is Expired has its      *)
(* revoke sequence started, and the task never stops inside the loop.      *)
C8_FailureDoesNotStopCycle ==
    /\ CycleOver =>
          \A i \in SwFailed : \A j \in (i + 1)..Len(sw.all_values) :
             IsExpired(SwRec(j), sw.day) => j \in SwStarted
    /\ sw.pc = "dead" => sw.idx \in {0, Len(sw.all_values) + 1}

C8_Witness ==
    /\ CycleOver
    /\ \E i \in SwFailed : \E j \in (i + 1)..Len(sw.all_values) :
          IsExpired(SwRec(j), sw.day) /\ j \in SwStarted

(* C9: no failure, of get_all_records or of a gateway call, ends the       *)
(* watcher task.                                                           *)
C9_WatcherNeverDies == sw.pc # "dead"

(* C10: under fair scheduling of the watcher, a member whose record is     *)
(* paid with a valid expiry date in the past eventually has ban tried on   *)
(* the chat and on the channel, also when the calls for one group fail     *)
(* every time.                                                             *)
ExpiredInStore(id) ==
    \E r \in 2..Len(worksheet) : worksheet[r][1] = Str(id) /\ IsExpired(worksheet[r], today)

BanTried(id, call) ==
    \E i \in 1..Len(sw.all_values) :
        /\ <<i, call>> \in sw.log
        /\ Strip(sw.all_values[i].telegram_id) = Str(id)

C10_EventualRevocation ==
    \A id \in Ids :
        [](ExpiredInStore(id) =>
              (<>BanTried(id, "ban_chat") /\ <>BanTried(id, "ban_channel")))

(* C12: when create_chat_invite_link went through for one group and raised *)
(* for the other, send_invite_links still sends the member the link it got.*)
C12_CreatedLinkStillSent ==
    h.pc = "done" =>
        /\ ("link_chat" \in h.ok /\ "link_channel" \in h.calls \ h.ok)
              => "send_chat" \in h.calls
        /\ ("link_channel" \in h.ok /\ "link_chat" \in h.calls \ h.ok)
              => "send_channel" \in h.calls

(* C14: a /check message of an identifier that has no record is answered   *)
(* with the not-registered prompt and leaves the sheet as it is, in        *)
(* whatever state the dialog with that identifier is.                      *)

\* the dispatcher on a message whose text is /check: the handlers are tried
\* in the order they are registered in, the state filter before the command
CheckMessage(tg_id, chat) ==
    \/ ProcessFullName(tg_id, chat, T_check)
    \/ CmdCheck(tg_id, chat)

C14_CheckOfUnregistered ==
    [][\A tg_id \in Ids, chat \in Chats :
          (find_row_by_telegram_id(worksheet, tg_id) = NoRow /\ CheckMessage(tg_id, chat))
          => (worksheet' = worksheet /\ h'.answer = "not_registered")]_vars

(* C17: every step of /start, /check, the name capture and the watcher     *)
(* either leaves the sheet as it is or appends one row (identifier,        *)
(* username, name, "no", ""): no row is rewritten or deleted, no row is    *)
(* created as paid.                                                        *)
C17_OnlyRegistrationAppend ==
    [][worksheet' # worksheet =>
          LET n == Len(worksheet)
          IN  /\ Len(worksheet') = n + 1
              /\ SubSeq(worksheet', 1, n) = worksheet
              /\ \E id \in Ids : worksheet'[n + 1][1] = Str(id)
              /\ worksheet'[n + 1][4] = T_no
              /\ worksheet'[n + 1][5] = T_empty]_vars

C17_Witness ==
    /\ h.cmd = "name"
    /\ Len(worksheet) = 3
    /\ IsPaid(worksheet[2]) /\ HasExpiry(worksheet[2])
    /\ worksheet[3][1] = Str(h.tg_id)
    /\ ~IsPaid(worksheet[3]) /\ worksheet[3][5] = T_empty
    /\ sw.pc = "sleep" /\ sw.nseq > 0

----------------------------------------------------------------------------
(* Registration seen from more than one chat.  The dialog state of aiogram *)
(* is kept per (chat, user): a user who writes to the bot in the private   *)
(* chat and in a group the bot reads has one dialog in each.               *)

AllChats == {"private", "group"}

RowsOf(ws, id) == {r \in 2..Len(ws) : Strip(ws[r][1]) = Str(id)}

\* the sheets of InitSheets that hold at most one record for each identifier
OneRecordSheets ==
    {ws \in InitSheets : \A id \in Ids : Cardinality(RowsOf(ws, id)) <= 1}

InitReg ==
    /\ worksheet \in OneRecordSheets
    /\ today = StartDay
    /\ fsm = [k \in AllChats \X Ids |-> "none"]
    /\ h = HandlerIdle
    /\ sw = WatcherStart
    /\ gateway = InGroups

NextReg ==
    \/ \E tg_id \in Ids, chat \in AllChats : CmdStart(tg_id, chat)
    \/ \E tg_id \in Ids, chat \in AllChats, text \in {T_name, T_check} :
          ProcessFullName(tg_id, chat, text)
    \/ \E tg_id \in Ids, chat \in AllChats : CmdCheck(tg_id, chat)
    \/ \E ok \in BOOLEAN : HandlerReturn(ok) /\ UNCHANGED gateway

SpecReg == InitReg /\ [][NextReg]_vars

(* C13: whatever /start, name and /check messages arrive, from whichever   *)
(* chats, the sheet never holds two rows for one identifier.               *)
C13_OneRecordPerId ==
    \A id \in Ids : Cardinality(RowsOf(worksheet, id)) <= 1

----------------------------------------------------------------------------
(* The administrator.  The sheet is a shared spreadsheet: payment is       *)
(* confirmed, and a subscription renewed, by the administrator writing the *)
(* paid and expiry_date cells of a row by hand, at any moment.             *)

AdminEdit(row, paid, expiry) ==
    /\ row \in 2..Len(worksheet)
    /\ <<worksheet[row][4], worksheet[row][5]>> # <<paid, expiry>>
    /\ worksheet' = [worksheet EXCEPT ![row] = [@ EXCEPT ![4] = paid, ![5] = expiry]]
    /\ UNCHANGED <<today, fsm, h, sw, gateway>>

\* a step in which the administrator rewrote a row
AdminStep ==
    \E row \in 2..Len(worksheet) :
        /\ Len(worksheet') = Len(worksheet)
        /\ worksheet'[row][4] \in PaidCells
        /\ worksheet'[row][5] \in ExpiryCells
        /\ AdminEdit(row, worksheet'[row][4], worksheet'[row][5])

\* the dates the administrator gives a subscription
RenewCells == {isoformat(StartDay), isoformat(NextDay(StartDay))}

\* the watcher and the clock, with the administrator at the sheet
NextSweepAdm ==
    \/ \E loaded \in BOOLEAN : WatcherWake(loaded)
    \/ \E ok \in BOOLEAN : WatcherReturn(ok) /\ UNCHANGED gateway
    \/ Tick
    \/ \E row \in 2..(MaxRows + 1), paid \in PaidCells, expiry \in ExpiryCells :
          AdminEdit(row, paid, expiry)

SpecSweepAdm == Init /\ [][NextSweepAdm]_vars

\* the handlers and the clock, with the administrator confirming, renewing
\* and withdrawing subscriptions
NextLife ==
    \/ \E tg_id \in Ids, chat \in Chats : CmdStart(tg_id, chat)
    \/ \E tg_id \in Ids, chat \in Chats : ProcessFullName(tg_id, chat, T_name)
    \/ \E tg_id \in Ids, chat \in Chats : CmdCheck(tg_id, chat)
    \/ \E ok \in BOOLEAN : HandlerReturn(ok) /\ UNCHANGED gateway
    \/ Tick
    \/ \E row \in 2..(MaxRows + 1), paid \in PaidCells, expiry \in RenewCells :
          AdminEdit(row, paid, expiry)

SpecLife == Init /\ [][NextLife]_vars

\* the state cmd_check derives from the record it read, on a date
classify_user(user, day) ==
    IF user.paid # T_yes THEN "AwaitingPayment"
    ELSE CHOOSE state \in
            {IF expiry = None THEN "AwaitingPayment"
             ELSE IF DateLess(expiry, day) THEN "Expired"
             ELSE "Active" : expiry \in {parse_date_or_none(user.expiry_date)}} : TRUE

\* the state cmd_check derives for an identifier from the sheet and the date
classify(ws, tg_id, day) ==
    CHOOSE state \in
        {IF row = NoRow THEN "Unregistered" ELSE classify_user(read_user(ws, row), day)
           : row \in {find_row_by_telegram_id(ws, tg_id)}} : TRUE

BanCalls == {"ban_chat", "ban_channel"}

\* a step of the watcher that issues ban_chat_member
WatcherBans ==
    /\ (\E loaded \in BOOLEAN : WatcherWake(loaded)) \/ (\E ok \in BOOLEAN : WatcherReturn(ok))
    /\ sw'.pc \in BanCalls

(* C19: whenever the watcher issues a ban for a row, the row as the sheet  *)
(* holds it at that moment is not Active (paid with a valid expiry date    *)
(* not before today), also when the administrator moved the expiry date    *)
(* forward after the cycle loaded the row.                                 *)
C19_NoRevokeOfActive ==
    [][WatcherBans => ~IsActive(worksheet[sw'.idx + 1], today)]_vars

(* C18: the state derived for an identifier moves only along               *)
(* Unregistered -> AwaitingPayment -> Active <-> Expired.  In a step that  *)
(* is not an edit by the administrator it stays, or goes from Unregistered *)
(* to AwaitingPayment, or from Active to Expired with the date changing;   *)
(* a row the watcher takes as expired stays so.  It goes from Expired to   *)
(* Active only in a step where the administrator moves the expiry date of  *)
(* the identifier's row forward.                                           *)
ExpiryMovedForward(id) ==
    \E row \in {find_row_by_telegram_id(worksheet, id)} :
        /\ row # NoRow
        /\ \E old \in {parse_date_or_none(worksheet[row][5])},
              new \in {parse_date_or_none(worksheet'[row][5])} :
              old # None /\ new # None /\ DateLess(old, new)

\* how the derived state of an identifier may move without the administrator
LifecycleStep(a, b) ==
    \/ a = b
    \/ a = "Unregistered" /\ b = "AwaitingPayment"
    \/ a = "Active" /\ b = "Expired" /\ today' # today

C18_Lifecycle ==
    [][/\ \A id \in Ids :
            \E a \in {classify(worksheet, id, today)},
               b \in {classify(worksheet', id, today')} :
                /\ LifecycleStep(a, b) \/ AdminStep
                /\ (a = "Expired" /\ b = "Active") =>
                      AdminStep /\ ExpiryMovedForward(id)
       /\ \A i \in 1..(Len(worksheet) - 1) :
             \/ ~watcher_expired(get_all_records(worksheet)[i], today)
             \/ watcher_expired(get_all_records(worksheet')[i], today')
             \/ AdminStep]_vars

\* /check took the identifier as expired today, and the administrator has
\* renewed it since; another identifier has registered meanwhile
C18_Witness ==
    /\ today = LastDay
    /\ h.cmd = "check" /\ h.pc = "done" /\ h.day = today
    /\ "ban_chat" \in h.calls
    /\ classify(worksheet, h.tg_id, today) = "Active"
    /\ \E id \in Ids : classify(worksheet, id, today) = "AwaitingPayment"

----------------------------------------------------------------------------
(* The membership of the two groups.  Telegram Bot API: banChatMember      *)
(* leaves the user banned from the group; unbanChatMember, called without  *)
(* only_if_banned as here, leaves the user out of the group and free to    *)
(* join again; a call that raises changes nothing.                         *)

GroupOf(call) == IF call \in {"ban_chat", "unban_chat"} THEN "chat" ELSE "channel"

served(gw, call, tg_id, ok) ==
    IF ~ok THEN gw
    ELSE [gw EXCEPT ![GroupOf(call)][tg_id] = IF call \in BanCalls THEN "banned" ELSE "left"]

\* the call of the handler returns or raises, and Telegram has done what it says
HandlerServed(ok) ==
    /\ HandlerReturn(ok)
    /\ gateway' = IF h.pc \in RevokeCalls THEN served(gateway, h.pc, h.tg_id, ok)
                  ELSE gateway

\* the same for the call of the watcher; tg_id = int(tg_id_str)
WatcherServed(ok) ==
    /\ WatcherReturn(ok)
    /\ \E tg_id \in {ToInt(Strip(sw.all_values[sw.idx].telegram_id))} :
          gateway' = served(gateway, sw.pc, tg_id, ok)

\* sheets whose records are all paid up to StartDay
DueSheets ==
    {ws \in InitSheets :
        /\ Len(ws) > 1
        /\ \A r \in 2..Len(ws) : ws[r][4] = T_Yes /\ ws[r][5] = isoformat(StartDay)}

InitGw ==
    /\ worksheet \in DueSheets
    /\ today = StartDay
    /\ fsm = [k \in Chats \X Ids |-> "none"]
    /\ h = HandlerIdle
    /\ sw = WatcherStart
    /\ gateway = InGroups

NextGw ==
    \/ \E tg_id \in Ids, chat \in Chats : CmdCheck(tg_id, chat)
    \/ \E ok \in BOOLEAN : HandlerServed(ok)
    \/ WatcherWake(TRUE)
    \/ \E ok \in BOOLEAN : WatcherServed(ok)
    \/ Tick

SpecGw == InitGw /\ [][NextGw]_vars

\* no revoke sequence is under way
Quiet == h.pc \notin RevokeCalls /\ sw.pc \notin RevokeCalls

Banned(id) == \E g \in Groups : gateway[g][id] = "banned"

(* C15: once the revoke sequences that ran have finished, whatever calls   *)
(* raised in them, no user is banned from the chat or from the channel.    *)
C15_NotBannedAfterRevoke ==
    Quiet => \A id \in Ids : ~Banned(id)

----------------------------------------------------------------------------
(* A revoke sequence run again.  The subscriptions have run out and a      *)
(* first revoke sequence has gone through for every user: they are out of  *)
(* both groups and not banned (a state SpecGw reaches).  Every sequence    *)
(* from here on is a repeated one.                                         *)

OutOfGroups == [g \in Groups |-> [id \in Ids |-> "left"]]

InitAgain ==
    /\ worksheet \in DueSheets
    /\ today = LastDay
    /\ fsm = [k \in Chats \X Ids |-> "none"]
    /\ h = HandlerIdle
    /\ sw = WatcherStart
    /\ gateway = OutOfGroups

NextAgain ==
    \/ \E tg_id \in Ids, chat \in Chats : CmdCheck(tg_id, chat)
    \/ \E ok \in BOOLEAN : HandlerServed(ok)
    \/ WatcherWake(TRUE)
    \/ \E ok \in BOOLEAN : WatcherServed(ok)

SpecAgain == InitAgain /\ [][NextAgain]_vars

(* C11: a revoke sequence run on a user who has been revoked already       *)
(* raises nothing to its caller (/check answers, the watcher goes on), and *)
(* when it is over the user is, as before it, out of both groups and not   *)
(* banned.                                                                 *)
C11_RevokeIdempotent ==
    /\ (h.pc = "done" /\ "ban_chat" \in h.calls) => h.answer = "expired"
    /\ sw.pc # "dead"
    /\ Quiet => gateway = OutOfGroups

----------------------------------------------------------------------------
(* /check and the watcher revoking the same user at once: both have just   *)
(* issued their first ban for the user of the first record (a state SpecGw *)
(* reaches), and every call from here on returns or raises in any order.   *)

InitBoth ==
    /\ worksheet \in DueSheets
    /\ today = LastDay
    /\ fsm = [k \in Chats \X Ids |-> "none"]
    /\ gateway = InGroups
    /\ sw = watcher_continue([WatcherStart EXCEPT !.all_values = get_all_records(worksheet),
                                                  !.day = today], 1)
    /\ \E tg_id \in {ToInt(Strip(sw.all_values[sw.idx].telegram_id))},
          chat \in Chats :
          \E row \in {find_row_by_telegram_id(worksheet, tg_id)} :
             \E user \in {read_user(worksheet, row)} :
                h = Calling("check", tg_id, chat, row, user,
                            parse_date_or_none(user.expiry_date), "ban_chat")

NextBoth ==
    \/ \E ok \in BOOLEAN : HandlerServed(ok)
    \/ \E ok \in BOOLEAN : WatcherServed(ok)

SpecBoth == InitBoth /\ [][NextBoth]_vars

(* C16: with /check and the watcher revoking the same user at once, in     *)
(* whatever order their calls return or raise, /check answers and the      *)
(* watcher reaches its sleep, and when both are over the user is out of    *)
(* the chat and of the channel and banned from neither.                    *)
C16_ConcurrentRevokes ==
    /\ h.pc = "done" => h.answer = "expired"
    /\ sw.pc # "dead"
    /\ (h.pc = "done" /\ sw.pc = "sleep") =>
          \A g \in Groups : gateway[g][h.tg_id] = "left"

====
